---------------------------- MODULE Spec2Model ----------------------------
(***************************************************************************)
(* Model of the two inspection scripts of 1PWR_PR_System:                  *)
(*   analyze_sheet.py  - get_credentials() and analyze_sheet()             *)
(*   analyze_excel.py  - analyze_excel()                                   *)
(* Strings built with chr() are sequences of code points; printed lines    *)
(* are tuples whose first element names the print statement.               *)
(***************************************************************************)
EXTENDS Integers, Sequences, FiniteSets

(* ------------------------------ bounds --------------------------------- *)
MaxSheets == 2
MaxCols == 2
MaxRows == 2
MaxIdx == 800

(* --------------------------- program constants ------------------------- *)
\* range_name = f"{title}!A1:ZZ5": columns A..ZZ are 702 columns
RangeCols == 702
\* range_name = f"{title}!A1:ZZ5": rows 1..5
RangeRows == 5
\* chr(65) is "A"
OrdA == 65

VARIABLES pc, tokenFile, creds, sheets, k, title, values, headers, out, log,
          error, idx, labelSheet, labelExcel

vars == <<pc, tokenFile, creds, sheets, k, title, values, headers, out, log,
          error, idx, labelSheet, labelExcel>>

(* ------------------------------ helpers -------------------------------- *)
\* Python None is the empty sequence, an object x is <<x>>
None == <<>>

Min(a, b) == IF a < b THEN a ELSE b

\* one external effect: file access, OAuth call or remote request
Ev(op, ok, name, data) == [op |-> op, ok |-> ok, name |-> name, data |-> data]

\* uncaught exception: the traceback ends the process
Raise(e) == pc' = "aborted" /\ error' = e

SheetTitles == <<"Foo", "Bar", "Baz", "Qux">>

ColumnNames == {"Name", "Date", "Qty"}

\* the credential objects a token.pickle can hold (google-auth: valid
\* means a token that is not expired)
CachedCreds ==
    {c \in [valid : BOOLEAN, expired : BOOLEAN, refresh_token : BOOLEAN,
            token : {"cached"}] : c.valid => ~c.expired}

\* token.pickle: missing, truncated (exists, no object), or a pickled object
TokenFiles ==
    {[exists |-> FALSE, data |-> None], [exists |-> TRUE, data |-> None]}
        \cup {[exists |-> TRUE, data |-> <<c>>] : c \in CachedCreds}

\* variables of the other scripts stay idle
LabelIdle == idx = 0 /\ labelSheet = None /\ labelExcel = None
LabelUnchanged == UNCHANGED <<idx, labelSheet, labelExcel>>
SheetIdle ==
    /\ sheets = <<>> /\ k = 0 /\ title = "" /\ values = <<>>
    /\ headers = <<>> /\ out = <<>> /\ log = <<>> /\ error = ""
CredIdle == tokenFile = [exists |-> FALSE, data |-> None] /\ creds = None
CredUnchanged == UNCHANGED <<tokenFile, creds>>
LoopUnchanged == UNCHANGED <<sheets, k, title, values, headers>>

(* ====================== analyze_sheet.py: get_credentials ============== *)

\* line 23: if not creds or not creds.valid
NeedsLogin(c) == c = None \/ ~c[1].valid

\* mutant of CanRefresh: the expiry test is dropped
CanRefreshAlways(c) == c # None /\ c[1].refresh_token

\* line 24: if creds and creds.expired and creds.refresh_token
CanRefresh(c) == c # None /\ c[1].expired /\ c[1].refresh_token

\* line 25: creds.refresh(Request()) updates the object in place
Refreshed(c) == [c EXCEPT !.valid = TRUE, !.expired = FALSE, !.token = "refreshed"]

\* line 29: the credential flow.run_local_server returns
InteractiveCreds ==
    [valid |-> TRUE, expired |-> FALSE, refresh_token |-> TRUE,
     token |-> "interactive"]

\* lines 16-18: creds = None; os.path.exists('token.pickle')
TokenExists ==
    /\ pc = "gc_exists"
    /\ creds' = None
    /\ pc' = IF tokenFile.exists THEN "gc_load" ELSE "gc_check"
    /\ UNCHANGED <<tokenFile, out, log, error>>
    /\ LoopUnchanged /\ LabelUnchanged

\* lines 19-20: creds = pickle.load(token)
LoadToken ==
    /\ pc = "gc_load"
    /\ tokenFile.data # None
    /\ creds' = tokenFile.data
    /\ log' = Append(log, Ev("read", TRUE, "token.pickle", tokenFile.data))
    /\ pc' = "gc_check"
    /\ UNCHANGED <<tokenFile, out, error>>
    /\ LoopUnchanged /\ LabelUnchanged

\* lines 19-20: open() or pickle.load() raises (unreadable or truncated)
LoadTokenRaises ==
    /\ pc = "gc_load"
    /\ log' = Append(log, Ev("read", FALSE, "token.pickle", None))
    /\ Raise("pickle.load")
    /\ UNCHANGED <<tokenFile, creds, out>>
    /\ LoopUnchanged /\ LabelUnchanged

\* lines 23-26: choose the acquisition path
CheckCreds ==
    /\ pc = "gc_check"
    /\ pc' = IF ~NeedsLogin(creds) THEN "gc_return"
             ELSE IF CanRefresh(creds) THEN "gc_refresh" ELSE "gc_flow"
    /\ UNCHANGED <<tokenFile, creds, out, log, error>>
    /\ LoopUnchanged /\ LabelUnchanged

\* line 25: creds.refresh(Request())
RefreshCreds ==
    /\ pc = "gc_refresh"
    /\ creds' = <<Refreshed(creds[1])>>
    /\ log' = Append(log, Ev("refresh", TRUE, "", None))
    /\ pc' = "gc_save"
    /\ UNCHANGED <<tokenFile, out, error>>
    /\ LoopUnchanged /\ LabelUnchanged

\* line 25: the refresh request raises; nothing catches it
RefreshRaises ==
    /\ pc = "gc_refresh"
    /\ log' = Append(log, Ev("refresh", FALSE, "", None))
    /\ Raise("creds.refresh")
    /\ UNCHANGED <<tokenFile, creds, out>>
    /\ LoopUnchanged /\ LabelUnchanged

\* lines 27-29: InstalledAppFlow ... run_local_server(port=0)
RunFlow ==
    /\ pc = "gc_flow"
    /\ creds' = <<InteractiveCreds>>
    /\ log' = Append(log, Ev("flow", TRUE, "", None))
    /\ pc' = "gc_save"
    /\ UNCHANGED <<tokenFile, out, error>>
    /\ LoopUnchanged /\ LabelUnchanged

\* lines 27-29: credentials.json missing or the consent flow cancelled
RunFlowRaises ==
    /\ pc = "gc_flow"
    /\ log' = Append(log, Ev("flow", FALSE, "", None))
    /\ Raise("run_local_server")
    /\ UNCHANGED <<tokenFile, creds, out>>
    /\ LoopUnchanged /\ LabelUnchanged

\* mutant of SaveToken: the credential is not written back
SaveTokenSkipped ==
    /\ pc = "gc_save"
    /\ pc' = "gc_return"
    /\ UNCHANGED <<tokenFile, creds, out, log, error>>
    /\ LoopUnchanged /\ LabelUnchanged

\* lines 31-32: pickle.dump(creds, token)
SaveToken ==
    /\ pc = "gc_save"
    /\ tokenFile' = [exists |-> TRUE, data |-> creds]
    /\ log' = Append(log, Ev("write", TRUE, "token.pickle", creds))
    /\ pc' = "gc_return"
    /\ UNCHANGED <<creds, out, error>>
    /\ LoopUnchanged /\ LabelUnchanged

\* lines 31-32: open('wb') raises (file untouched) or the dump raises
\* after open truncated the file
SaveTokenRaises ==
    /\ pc = "gc_save"
    /\ \E truncated \in BOOLEAN :
          tokenFile' = IF truncated THEN [exists |-> TRUE, data |-> None]
                       ELSE tokenFile
    /\ log' = Append(log, Ev("write", FALSE, "token.pickle", None))
    /\ Raise("pickle.dump")
    /\ UNCHANGED <<creds, out>>
    /\ LoopUnchanged /\ LabelUnchanged

get_credentials ==
    \/ TokenExists \/ LoadToken \/ LoadTokenRaises \/ CheckCreds
    \/ RefreshCreds \/ RefreshRaises \/ RunFlow \/ RunFlowRaises
    \/ SaveToken \/ SaveTokenRaises

InitSheet ==
    /\ pc = "gc_exists"
    /\ tokenFile \in TokenFiles
    /\ creds = None
    /\ SheetIdle /\ LabelIdle


(* ====================== analyze_sheet.py: analyze_sheet ================ *)

\* chr(n): the one-character string of code point n
Chr(n) == <<n>>

\* mutant of col_letter_sheet: the first letter is not shifted by one
col_letter_sheet_off(i) ==
    IF i >= 26 THEN Chr(OrdA + (i \div 26)) \o Chr(OrdA + (i % 26))
    ELSE Chr(OrdA + i)

\* line 73: chr(65 + (i // 26) - 1) + chr(65 + (i % 26)) if i >= 26
\*          else chr(65 + i)
col_letter_sheet(i) ==
    IF i >= 26 THEN Chr(OrdA + (i \div 26) - 1) \o Chr(OrdA + (i % 26))
    ELSE Chr(OrdA + i)

\* line 57: range_name = f"{title}!A1:ZZ5"
range_name(t) == <<t, "A1:ZZ5">>

\* the cell the service returns for row r, column c (both zero-based)
Cell(r, c) == <<r, c>>

\* the rows of a response whose row r has lens[r] cells
Table(lens) ==
    [r \in 1..Len(lens) |-> [c \in 1..lens[r] |-> Cell(r - 1, c - 1)]]

\* row lengths of a response of n rows: up to two rows, the header row and
\* the first data row take every length; the code reads no later row, so
\* one full table stands for each longer response
RowLens(n) ==
    IF n <= 2
    THEN {[r \in 1..n |-> IF r = 1 THEN h ELSE s] :
             h \in 0..Min(MaxCols, RangeCols), s \in 0..Min(MaxCols, RangeCols)}
    ELSE {[r \in 1..n |-> Min(MaxCols, RangeCols)]}

\* what values().get(...).execute() returns: a dict with or without 'values'
Responses ==
    {[hasValues |-> FALSE, values |-> <<>>]}
        \cup {[hasValues |-> TRUE, values |-> Table(l)] :
                 l \in {<<>>} \cup UNION {RowLens(n) : n \in 1..Min(MaxRows, RangeRows)}}

\* what spreadsheets().get(...).execute() returns: with or without 'sheets'
Metadata ==
    {[hasSheets |-> FALSE, sheets |-> <<>>]}
        \cup {[hasSheets |-> TRUE, sheets |-> SubSeq(SheetTitles, 1, n)] :
                 n \in 0..MaxSheets}

\* line 43: sheet_metadata.get('sheets', ''); '' iterates like an empty list
SheetsOf(meta) == IF meta.hasSheets THEN meta.sheets ELSE <<>>

\* line 63: result.get('values', [])
ValuesOf(result) == IF result.hasValues THEN result.values ELSE <<>>

\* mutant of NoRows: the empty check is dropped
NoRowsNever(v) == FALSE

\* line 65: if not values
NoRows(v) == v = <<>>

\* line 77: if len(values) > 1
HasSample(v) == Len(v) > 1

\* mutant of SampleGuard: the index guard is dropped
SampleGuardNone(i, hdrs) == TRUE

\* line 80: if i < len(headers)
SampleGuard(i, hdrs) == i < Len(hdrs)

\* mutant of ExceptHandler: the handler leaves the loop
ExceptHandlerBreaks(o, e) ==
    /\ out' = Append(o, <<"Error", title, e>>)
    /\ k' = Len(sheets)
    /\ pc' = "loop"
    /\ UNCHANGED error

\* lines 83-84: except Exception as e: print(...); the for loop goes on
ExceptHandler(o, e) ==
    /\ out' = Append(o, <<"Error", title, e>>)
    /\ k' = k + 1
    /\ pc' = "loop"
    /\ UNCHANGED error

\* lines 72-74: one line per header, labelled with its column letter
HeaderLines(hdrs) ==
    [i \in 1..Len(hdrs) |-> <<"Column", col_letter_sheet(i - 1), hdrs[i]>>]

\* lines 79-81: for i, value in enumerate(values[1]); headers[i] raises
\* IndexError when i is not an index of headers
RECURSIVE SampleLoop(_, _, _, _)
SampleLoop(hdrs, row, i, acc) ==
    IF i >= Len(row) THEN [lines |-> acc, raised |-> FALSE]
    ELSE IF SampleGuard(i, hdrs)
         THEN IF i >= Len(hdrs) THEN [lines |-> acc, raised |-> TRUE]
              ELSE SampleLoop(hdrs, row, i + 1,
                              Append(acc, <<"Pair", hdrs[i + 1], row[i + 1]>>))
         ELSE SampleLoop(hdrs, row, i + 1, acc)

\* lines 34, 38: return creds; creds = get_credentials()
ReturnCreds ==
    /\ pc = "gc_return"
    /\ pc' = "build"
    /\ UNCHANGED <<tokenFile, creds, out, log, error>>
    /\ LoopUnchanged /\ LabelUnchanged

\* line 39: service = build('sheets', 'v4', credentials=creds)
BuildService ==
    /\ pc = "build"
    /\ log' = Append(log, Ev("build", TRUE, "sheets", None))
    /\ pc' = "metadata"
    /\ UNCHANGED <<tokenFile, creds, out, error>>
    /\ LoopUnchanged /\ LabelUnchanged

\* line 39: build raises
BuildRaises ==
    /\ pc = "build"
    /\ log' = Append(log, Ev("build", FALSE, "sheets", None))
    /\ Raise("build")
    /\ UNCHANGED <<tokenFile, creds, out>>
    /\ LoopUnchanged /\ LabelUnchanged

\* lines 42-43: the metadata call and sheets = sheet_metadata.get('sheets', '')
GetMetadata ==
    /\ pc = "metadata"
    /\ \E meta \in Metadata :
          /\ sheets' = SheetsOf(meta)
          /\ log' = Append(log, Ev("metadata", TRUE, "", meta.sheets))
    /\ pc' = "list_names"
    /\ UNCHANGED <<tokenFile, creds, k, title, values, headers, out, error>>
    /\ LabelUnchanged

\* mutant of MetadataRaises: the failure is caught and a default sheet list used
MetadataSwallowed ==
    /\ pc = "metadata"
    /\ log' = Append(log, Ev("metadata", FALSE, "", None))
    /\ sheets' = SubSeq(SheetTitles, 1, 1)
    /\ pc' = "list_names"
    /\ UNCHANGED <<tokenFile, creds, k, title, values, headers, out, error>>
    /\ LabelUnchanged

\* line 42: the metadata call raises; nothing catches it
MetadataRaises ==
    /\ pc = "metadata"
    /\ log' = Append(log, Ev("metadata", FALSE, "", None))
    /\ Raise("spreadsheets.get")
    /\ UNCHANGED <<tokenFile, creds, out>>
    /\ LoopUnchanged /\ LabelUnchanged

\* lines 45-51: the sheet names, then the second loop starts
PrintSheetNames ==
    /\ pc = "list_names"
    /\ out' = out \o <<<<"SheetNames">>>>
                  \o [i \in 1..Len(sheets) |-> <<"Name", sheets[i]>>]
                  \o <<<<"Structure">>>>
    /\ k' = 0
    /\ pc' = "loop"
    /\ UNCHANGED <<tokenFile, creds, sheets, title, values, headers, log, error>>
    /\ LabelUnchanged

\* lines 52-57: next sheet of the for loop
LoopNext ==
    /\ pc = "loop"
    /\ k < Len(sheets)
    /\ title' = sheets[k + 1]
    /\ out' = Append(out, <<"Analyzing", sheets[k + 1]>>)
    /\ pc' = "fetch"
    /\ UNCHANGED <<tokenFile, creds, sheets, k, values, headers, log, error>>
    /\ LabelUnchanged

\* line 52: the for loop is exhausted, analyze_sheet returns
LoopExit ==
    /\ pc = "loop"
    /\ k >= Len(sheets)
    /\ pc' = "done"
    /\ UNCHANGED <<tokenFile, creds, out, log, error>>
    /\ LoopUnchanged /\ LabelUnchanged

\* lines 59-63: the range fetch returns
FetchValues ==
    /\ pc = "fetch"
    /\ \E result \in Responses :
          /\ values' = ValuesOf(result)
          /\ log' = Append(log, Ev("fetch", TRUE, range_name(title), <<result>>))
    /\ pc' = "describe"
    /\ UNCHANGED <<tokenFile, creds, sheets, k, title, headers, out, error>>
    /\ LabelUnchanged

\* mutant of FetchRaises: a failed fetch is retried once
FetchRaisesRetriedOnce ==
    /\ pc = "fetch"
    /\ log' = Append(log, Ev("fetch", FALSE, range_name(title), None))
    /\ IF log[Len(log)].op = "fetch" /\ log[Len(log)].name = range_name(title)
       THEN ExceptHandler(out, "HttpError")
       ELSE UNCHANGED <<pc, out, k, error>>
    /\ UNCHANGED <<tokenFile, creds, sheets, title, values, headers>>
    /\ LabelUnchanged

\* lines 59-62, 83-84: the range fetch raises an Exception
FetchRaises ==
    /\ pc = "fetch"
    /\ log' = Append(log, Ev("fetch", FALSE, range_name(title), None))
    /\ ExceptHandler(out, "HttpError")
    /\ UNCHANGED <<tokenFile, creds, sheets, title, values, headers>>
    /\ LabelUnchanged

\* lines 65-67: print('No data found.'); continue
NoData ==
    /\ pc = "describe"
    /\ NoRows(values)
    /\ out' = Append(out, <<"NoData">>)
    /\ k' = k + 1
    /\ pc' = "loop"
    /\ UNCHANGED <<tokenFile, creds, sheets, title, values, headers, log, error>>
    /\ LabelUnchanged

\* lines 70-74: headers = values[0] and the column lines
PrintHeaders ==
    /\ pc = "describe"
    /\ ~NoRows(values)
    /\ IF Len(values) = 0
       THEN ExceptHandler(out, "IndexError") /\ UNCHANGED headers
       ELSE /\ headers' = values[1]
            /\ out' = out \o <<<<"Found", Len(values[1])>>>>
                          \o HeaderLines(values[1])
            /\ pc' = "sample"
            /\ UNCHANGED <<k, error>>
    /\ UNCHANGED <<tokenFile, creds, sheets, title, values, log>>
    /\ LabelUnchanged

\* lines 77-81: the sample data row, then the next iteration
PrintSample ==
    /\ pc = "sample"
    /\ IF HasSample(values)
       THEN IF Len(values) < 2
            THEN ExceptHandler(out, "IndexError")
            ELSE LET r == SampleLoop(headers, values[2], 0, <<<<"Sample">>>>)
                 IN  IF r.raised
                     THEN ExceptHandler(out \o r.lines, "IndexError")
                     ELSE /\ out' = out \o r.lines
                          /\ k' = k + 1
                          /\ pc' = "loop"
                          /\ UNCHANGED error
       ELSE /\ k' = k + 1
            /\ pc' = "loop"
            /\ UNCHANGED <<out, error>>
    /\ UNCHANGED <<tokenFile, creds, sheets, title, values, headers, log>>
    /\ LabelUnchanged

analyze_sheet ==
    \/ ReturnCreds \/ BuildService \/ BuildRaises
    \/ GetMetadata \/ MetadataRaises \/ PrintSheetNames
    \/ LoopNext \/ LoopExit \/ FetchValues \/ FetchRaises
    \/ NoData \/ PrintHeaders \/ PrintSample

Next == get_credentials \/ analyze_sheet

Spec == InitSheet /\ [][Next]_vars

\* the process runs until it returns or dies: every call returns
FairSpec == Spec /\ WF_vars(Next)


(* ====================== analyze_excel.py: analyze_excel ================ *)
\* sheets holds xl.sheet_names, title the loop variable sheet, headers
\* df.columns

\* line 19: chr(65 + (idx // 26) - 1) + chr(65 + (idx % 26)) if idx >= 26
\*          else chr(65 + idx)
col_letter_excel(i) ==
    IF i >= 26 THEN Chr(OrdA + (i \div 26) - 1) \o Chr(OrdA + (i % 26))
    ELSE Chr(OrdA + i)

\* df.columns of a sheet: pandas keeps column names distinct
ColumnLists ==
    UNION {{c \in [1..n -> ColumnNames] :
               \A i, j \in 1..n : c[i] = c[j] => i = j} : n \in 0..MaxCols}

\* lines 4-5: xl = pd.ExcelFile(file_path)
OpenWorkbook ==
    /\ pc = "xl_open"
    /\ \E n \in 1..MaxSheets : sheets' = SubSeq(SheetTitles, 1, n)
    /\ log' = Append(log, Ev("open", TRUE, "xlsx", None))
    /\ pc' = "xl_names"
    /\ UNCHANGED <<k, title, values, headers, out, error>>
    /\ CredUnchanged /\ LabelUnchanged

\* line 5: the file is missing or is no workbook
OpenWorkbookRaises ==
    /\ pc = "xl_open"
    /\ log' = Append(log, Ev("open", FALSE, "xlsx", None))
    /\ Raise("ExcelFile")
    /\ UNCHANGED out
    /\ LoopUnchanged /\ CredUnchanged /\ LabelUnchanged

\* lines 7-13: the sheet names, then the second loop starts
PrintWorkbookNames ==
    /\ pc = "xl_names"
    /\ out' = out \o <<<<"SheetNames">>>>
                  \o [i \in 1..Len(sheets) |-> <<"Name", sheets[i]>>]
                  \o <<<<"Detailed">>>>
    /\ k' = 0
    /\ pc' = "xl_loop"
    /\ UNCHANGED <<sheets, title, values, headers, log, error>>
    /\ CredUnchanged /\ LabelUnchanged

\* lines 14-15: next sheet of the for loop
WorkbookLoopNext ==
    /\ pc = "xl_loop"
    /\ k < Len(sheets)
    /\ title' = sheets[k + 1]
    /\ out' = Append(out, <<"Sheet", sheets[k + 1]>>)
    /\ pc' = "xl_read"
    /\ UNCHANGED <<sheets, k, values, headers, log, error>>
    /\ CredUnchanged /\ LabelUnchanged

\* line 14: the for loop is exhausted, analyze_excel returns
WorkbookLoopExit ==
    /\ pc = "xl_loop"
    /\ k >= Len(sheets)
    /\ pc' = "done"
    /\ UNCHANGED <<out, log, error>>
    /\ LoopUnchanged /\ CredUnchanged /\ LabelUnchanged

\* line 16: df = pd.read_excel(xl, sheet)
ReadSheet ==
    /\ pc = "xl_read"
    /\ \E cols \in ColumnLists :
          /\ headers' = cols
          /\ log' = Append(log, Ev("read_excel", TRUE, title, cols))
    /\ pc' = "xl_columns"
    /\ UNCHANGED <<sheets, k, title, values, out, error>>
    /\ CredUnchanged /\ LabelUnchanged

\* mutant of ReadSheetRaises: the failure is caught and the loop goes on
ReadSheetSkipped ==
    /\ pc = "xl_read"
    /\ log' = Append(log, Ev("read_excel", FALSE, title, None))
    /\ k' = k + 1
    /\ pc' = "xl_loop"
    /\ UNCHANGED <<sheets, title, values, headers, out, error>>
    /\ CredUnchanged /\ LabelUnchanged

\* line 16: read_excel raises; nothing catches it
ReadSheetRaises ==
    /\ pc = "xl_read"
    /\ log' = Append(log, Ev("read_excel", FALSE, title, None))
    /\ Raise("read_excel")
    /\ UNCHANGED out
    /\ LoopUnchanged /\ CredUnchanged /\ LabelUnchanged

\* lines 17-20: the column count and one line per column
PrintColumns ==
    /\ pc = "xl_columns"
    /\ out' = out \o <<<<"Columns", Len(headers)>>>>
                  \o [i \in 1..Len(headers) |->
                         <<"Column", col_letter_excel(i - 1), headers[i]>>]
    /\ k' = k + 1
    /\ pc' = "xl_loop"
    /\ UNCHANGED <<sheets, title, values, headers, log, error>>
    /\ CredUnchanged /\ LabelUnchanged

analyze_excel ==
    \/ OpenWorkbook \/ OpenWorkbookRaises \/ PrintWorkbookNames
    \/ WorkbookLoopNext \/ WorkbookLoopExit
    \/ ReadSheet \/ ReadSheetRaises \/ PrintColumns

InitExcel == pc = "xl_open" /\ CredIdle /\ SheetIdle /\ LabelIdle

SpecExcel == InitExcel /\ [][analyze_excel]_vars

(* ====================== the column-letter expression =================== *)
\* the expression of both scripts applied to one column index; the remote
\* range A1:ZZ5 never yields a header beyond column RangeCols

\* analyze_sheet.py line 73 under enumerate(headers)
LabelSheet ==
    /\ pc = "label"
    /\ idx < RangeCols
    /\ labelSheet = None
    /\ labelSheet' = col_letter_sheet(idx)
    /\ UNCHANGED <<pc, idx, labelExcel, out, log, error>>
    /\ LoopUnchanged /\ CredUnchanged

\* analyze_excel.py line 19 under enumerate(df.columns)
LabelExcel ==
    /\ pc = "label"
    /\ labelExcel = None
    /\ labelExcel' = col_letter_excel(idx)
    /\ UNCHANGED <<pc, idx, labelSheet, out, log, error>>
    /\ LoopUnchanged /\ CredUnchanged

NextLabel == LabelSheet \/ LabelExcel

InitLabel ==
    /\ pc = "label"
    /\ idx \in 0..MaxIdx
    /\ labelSheet = None /\ labelExcel = None
    /\ CredIdle /\ SheetIdle

SpecLabel == InitLabel /\ [][NextLabel]_vars


(* ============================== properties ============================= *)

IsFetch(e) == e.op = "fetch"
IsRead(e) == e.op = "read"
IsWrite(e) == e.op = "write"
IsRefresh(e) == e.op = "refresh"
IsFlow(e) == e.op = "flow"
IsSheetRead(e) == e.op = "read_excel"

\* the range-fetch requests issued so far, in order
Fetches == SelectSeq(log, IsFetch)

\* the standard spreadsheet label of zero-based column i (bijective base 26)
RECURSIVE StdLabel(_)
StdLabel(i) ==
    IF i < 26 THEN <<65 + i>>
    ELSE StdLabel((i \div 26) - 1) \o <<65 + (i % 26)>>

\* the rows a response carries
RowsOf(e) == IF e.data[1].hasValues THEN e.data[1].values ELSE <<>>

\* what one sheet's description looks like, given only its own fetch
ExpectedReport(e) ==
    <<<<"Analyzing", e.name[1]>>>> \o
    (IF ~e.ok THEN <<<<"Error", e.name[1], "HttpError">>>>
     ELSE LET v == RowsOf(e)
          IN  IF v = <<>> THEN <<<<"NoData">>>>
              ELSE <<<<"Found", Len(v[1])>>>>
                   \o [i \in 1..Len(v[1]) |-> <<"Column", StdLabel(i - 1), v[1][i]>>]
                   \o (IF Len(v) < 2 THEN <<>>
                       ELSE <<<<"Sample">>>>
                            \o [i \in 1..Min(Len(v[1]), Len(v[2])) |->
                                   <<"Pair", v[1][i], v[2][i]>>]))

RECURSIVE ExpectedReports(_, _)
ExpectedReports(fs, n) ==
    IF n = 0 THEN <<>> ELSE ExpectedReports(fs, n - 1) \o ExpectedReport(fs[n])

ExpectedPreamble ==
    <<<<"SheetNames">>>> \o [i \in 1..Len(sheets) |-> <<"Name", sheets[i]>>]
                         \o <<<<"Structure">>>>

\* the lines printed for the j-th sheet of the loop
AnalyzingAt == {i \in 1..Len(out) : out[i][1] \in {"Analyzing", "Sheet"}}
StartOf(j) ==
    CHOOSE i \in AnalyzingAt : Cardinality({m \in AnalyzingAt : m <= i}) = j
Segment(j) ==
    SubSeq(out, StartOf(j),
           IF j < Cardinality(AnalyzingAt) THEN StartOf(j + 1) - 1 ELSE Len(out))
LinesOf(seg, kind) == {i \in 1..Len(seg) : seg[i][1] = kind}

\* C1: a range fetch that raises is caught and reported with the sheet's
\* title; every sheet is fetched in turn, and the output is the sequence of
\* per-sheet reports, each one a function of that sheet's own fetch alone
C1_FailureIsolated ==
    /\ (\E i \in 1..Len(Fetches) : ~Fetches[i].ok) => pc # "aborted"
    /\ pc \in {"loop", "done"} =>
          /\ Len(Fetches) = k
          /\ \A j \in 1..k : Fetches[j].name = range_name(sheets[j])
          /\ out = ExpectedPreamble \o ExpectedReports(Fetches, k)
    /\ pc = "done" => k = Len(sheets)

C1_Witness ==
    /\ pc = "done"
    /\ Len(sheets) = 2
    /\ ~Fetches[1].ok
    /\ Fetches[2].ok /\ Len(RowsOf(Fetches[2])) = 2
    /\ Len(RowsOf(Fetches[2])[1]) = 2


\* a failure before the per-sheet loop: the credential, the service object
\* or the sheet list
SetupOps == {"read", "refresh", "flow", "write", "build", "metadata"}
SetupFailed == \E i \in 1..Len(log) : log[i].op \in SetupOps /\ ~log[i].ok

\* C3: a failure while acquiring the credential or listing the sheets is
\* not caught: the run is aborted, no range fetch was issued and nothing was
\* printed for any sheet
C3_SetupFailureAborts ==
    SetupFailed =>
        /\ pc = "aborted"
        /\ ~log[Len(log)].ok
        /\ Fetches = <<>>
        /\ out = <<>>

C3_Witness ==
    /\ pc = "aborted"
    /\ log[Len(log)].op = "metadata"
    /\ \E i \in 1..Len(log) : log[i].op = "flow" /\ log[i].ok

\* get_credentials has returned to analyze_sheet
Returned ==
    \/ pc \in {"gc_return", "build"}
    \/ \E i \in 1..Len(log) : log[i].op = "build"

Reads == SelectSeq(log, IsRead)
Writes == SelectSeq(log, IsWrite)
Refreshes == SelectSeq(log, IsRefresh)
Flows == SelectSeq(log, IsFlow)

\* the credential was refreshed or obtained through the consent flow
Acquired ==
    \E i \in 1..Len(log) : log[i].op \in {"refresh", "flow"} /\ log[i].ok

\* C4: the token cache is read at most once, before any other effect; it is
\* never written more than once; a run that returns a credential wrote the
\* cache exactly once, with the returned credential, if it refreshed or ran
\* the consent flow, and did not write it if the cached credential was valid
C4_CacheReadOnceWrittenOnce ==
    /\ Len(Reads) <= 1
    /\ \A i \in 1..Len(log) : log[i].op = "read" => i = 1
    /\ Len(Writes) <= 1
    /\ Returned =>
          IF Acquired
          THEN /\ Len(Writes) = 1
               /\ Writes[1].ok
               /\ Writes[1].data = creds
               /\ tokenFile = [exists |-> TRUE, data |-> creds]
               /\ log[Len(Reads) + 2] = Writes[1]
          ELSE /\ Writes = <<>>
               /\ Len(Reads) = 1
               /\ tokenFile = [exists |-> TRUE, data |-> Reads[1].data]

C4_Witness ==
    /\ pc = "build"
    /\ Len(Reads) = 1
    /\ Len(Refreshes) = 1
    /\ Len(Writes) = 1
    /\ creds[1].token = "refreshed"

\* the credential object loaded from the cache, None without one
Cached == IF Reads # <<>> /\ Reads[1].ok THEN Reads[1].data ELSE None

\* the acquisition path is chosen and, if any, its call was made
PathTaken ==
    /\ pc \notin {"gc_exists", "gc_load", "gc_check", "gc_refresh", "gc_flow"}
    /\ \A i \in 1..Len(Reads) : Reads[i].ok

\* C5: exactly one acquisition path per cache state: the cached credential
\* unchanged when it is valid; an in-place refresh when it is invalid,
\* expired and has a refresh token; the consent flow otherwise; never both
\* calls, also when the refresh fails
C5_OneAcquisitionPath ==
    /\ Len(Refreshes) + Len(Flows) <= 1
    /\ pc = "gc_refresh" =>
          Cached # None /\ ~Cached[1].valid /\ Cached[1].expired
              /\ Cached[1].refresh_token
    /\ pc = "gc_flow" =>
          \/ Cached = None
          \/ ~Cached[1].valid /\ ~(Cached[1].expired /\ Cached[1].refresh_token)
    /\ PathTaken =>
          IF Cached # None /\ Cached[1].valid
          THEN Refreshes = <<>> /\ Flows = <<>> /\ creds = Cached
          ELSE IF Cached # None /\ Cached[1].expired /\ Cached[1].refresh_token
          THEN /\ Len(Refreshes) = 1 /\ Flows = <<>>
               /\ IF Refreshes[1].ok
                  THEN creds = <<[Cached[1] EXCEPT !.valid = TRUE,
                                     !.expired = FALSE, !.token = "refreshed"]>>
                  ELSE pc = "aborted" /\ creds = Cached
          ELSE /\ Len(Flows) = 1 /\ Refreshes = <<>>
               /\ IF Flows[1].ok THEN creds[1].token = "interactive"
                  ELSE pc = "aborted" /\ creds = Cached

C5_Witness ==
    /\ pc = "aborted"
    /\ Len(Refreshes) = 1
    /\ ~Refreshes[1].ok
    /\ Flows = <<>>


\* the j-th fetch returned and its sheet's iteration is still running
InProgress(j) == j = Len(Fetches) /\ pc \in {"describe", "sample"}

\* C8: a fetch that returns no rows (no 'values' key, or an empty list)
\* gets the "no data" notice and nothing else: no header or sample lines,
\* no error, and the loop has moved on to the next sheet
C8_NoDataNotice ==
    \A j \in 1..Len(Fetches) :
        (Fetches[j].ok /\ ~InProgress(j)
            /\ (~Fetches[j].data[1].hasValues \/ Fetches[j].data[1].values = <<>>))
        => /\ pc \in {"loop", "fetch", "describe", "sample", "done"}
           /\ k >= j
           /\ Segment(j) = <<<<"Analyzing", sheets[j]>>, <<"NoData">>>>

C8_Witness ==
    /\ pc = "done"
    /\ Len(Fetches) = 2
    /\ Fetches[1].ok /\ ~Fetches[1].data[1].hasValues
    /\ Fetches[2].ok /\ Fetches[2].data[1].hasValues
    /\ Fetches[2].data[1].values = <<>>

\* C9: for a fetch that returns rows, the headers are row 0; the sample
\* block is printed iff a row 1 came back; it holds exactly
\* min(len(row 1), len(headers)) pairs, headers[i] with row1[i]; and no
\* shape of the rows ends in an error
C9_HeadersAndSample ==
    \A j \in 1..Len(Fetches) :
        (Fetches[j].ok /\ ~InProgress(j) /\ RowsOf(Fetches[j]) # <<>>)
        => LET v == RowsOf(Fetches[j])
               seg == Segment(j)
               n == Len(v[1])
               pairs == LinesOf(seg, "Pair")
           IN  /\ k >= j
               /\ seg[2] = <<"Found", n>>
               /\ LinesOf(seg, "Column") = 3..(n + 2)
               /\ \A i \in 1..n : seg[i + 2][3] = v[1][i]
               /\ LinesOf(seg, "Error") = {}
               /\ LinesOf(seg, "NoData") = {}
               /\ (LinesOf(seg, "Sample") # {}) <=> (Len(v) >= 2)
               /\ Len(v) < 2 => pairs = {} /\ Len(seg) = n + 2
               /\ Len(v) >= 2 =>
                     /\ seg[n + 3] = <<"Sample">>
                     /\ Cardinality(pairs) = Min(Len(v[2]), n)
                     /\ pairs = (n + 4)..Len(seg)
                     /\ \A i \in 1..Cardinality(pairs) :
                           seg[n + 3 + i] = <<"Pair", v[1][i], v[2][i]>>

\* a sample row longer than the header row, then a header-only sheet
C9_Witness ==
    /\ pc = "done"
    /\ Len(Fetches) = 2
    /\ Fetches[1].ok /\ Len(RowsOf(Fetches[1])) = 2
    /\ Len(RowsOf(Fetches[1])[1]) = 1 /\ Len(RowsOf(Fetches[1])[2]) = 2
    /\ Fetches[2].ok /\ Len(RowsOf(Fetches[2])) = 1

\* the states of the remote inspector
Phase ==
    CASE pc \in {"gc_exists", "gc_load", "gc_check", "gc_refresh", "gc_flow",
                 "gc_save"} -> "Uninitialized"
      [] pc \in {"gc_return", "build", "metadata"} -> "Authenticated"
      [] pc = "list_names" \/ (pc = "loop" /\ k = 0) -> "SheetsListed"
      [] pc \in {"fetch", "describe", "sample"} -> "Describing"
      [] pc = "loop" /\ k > 0 ->
            IF out[Len(out)][1] = "Error" THEN "DescribeFailed" ELSE "Described"
      [] pc = "done" -> "Done"
      [] OTHER -> "Failed"

PhaseSteps ==
    {<<"Uninitialized", "Authenticated">>, <<"Uninitialized", "Failed">>,
     <<"Authenticated", "SheetsListed">>, <<"Authenticated", "Failed">>,
     <<"SheetsListed", "Describing">>, <<"SheetsListed", "Done">>,
     <<"Describing", "Described">>, <<"Describing", "DescribeFailed">>,
     <<"Described", "Describing">>, <<"Described", "Done">>,
     <<"DescribeFailed", "Describing">>, <<"DescribeFailed", "Done">>}

\* every sheet was requested exactly once, in the listed order
AttemptedOnceInOrder ==
    /\ Len(Fetches) = Len(sheets)
    /\ \A j \in 1..Len(sheets) : Fetches[j].name = range_name(sheets[j])

\* C2: the run moves only along Uninitialized -> Authenticated ->
\* SheetsListed -> (Describing -> Described | DescribeFailed)* -> Done;
\* once the sheets are listed it reaches Done; and at Done every listed
\* sheet was requested exactly once, in order, whatever came back
C2_ReachesDone ==
    /\ [][Phase' = Phase \/ <<Phase, Phase'>> \in PhaseSteps]_vars
    /\ (pc = "list_names") ~> (pc = "done")
    /\ [](pc = "done" => AttemptedOnceInOrder)

C2_Witness ==
    /\ pc = "done"
    /\ Len(sheets) = 2
    /\ Fetches[1].ok
    /\ ~Fetches[2].ok


\* the read_excel calls made so far, in order
SheetReads == SelectSeq(log, IsSheetRead)

\* the description analyze_excel prints for a sheet that was read
WorkbookReport(e) ==
    <<<<"Sheet", e.name>>, <<"Columns", Len(e.data)>>>>
        \o [i \in 1..Len(e.data) |-> <<"Column", StdLabel(i - 1), e.data[i]>>]

RECURSIVE WorkbookReports(_, _)
WorkbookReports(rs, n) ==
    IF n = 0 THEN <<>> ELSE WorkbookReports(rs, n - 1) \o WorkbookReport(rs[n])

WorkbookPreamble ==
    <<<<"SheetNames">>>> \o [i \in 1..Len(sheets) |-> <<"Name", sheets[i]>>]
                         \o <<<<"Detailed">>>>

\* C10: analyze_excel isolates nothing: a failed open aborts before any
\* output; a failed read of sheet k aborts there, with the sheets before k
\* described in workbook order and no sheet after k read or described
C10_NoIsolation ==
    /\ (\E i \in 1..Len(log) : log[i].op = "open" /\ ~log[i].ok) =>
          pc = "aborted" /\ out = <<>> /\ SheetReads = <<>>
    /\ (\E i \in 1..Len(SheetReads) : ~SheetReads[i].ok) =>
          /\ pc = "aborted"
          /\ Len(SheetReads) = k + 1
          /\ \A j \in 1..k : SheetReads[j].ok
          /\ \A j \in 1..(k + 1) : SheetReads[j].name = sheets[j]
          /\ out = WorkbookPreamble \o WorkbookReports(SheetReads, k)
                       \o <<<<"Sheet", sheets[k + 1]>>>>

\* the first sheet was described, the read of the second failed
C10_Witness ==
    /\ pc = "aborted"
    /\ Len(sheets) >= 2
    /\ Len(SheetReads) = 2
    /\ SheetReads[1].ok /\ Len(SheetReads[1].data) = 2
    /\ ~SheetReads[2].ok

\* C6: for every column index of the range A..ZZ (0..701) the expression of
\* both scripts is the standard label: A..Z for 0..25, "AA" for 26, "AZ"
\* for 51, "BA" for 52, "ZZ" for 701; so the two scripts agree there
C6_StandardUpToZZ ==
    /\ labelSheet # None =>
          /\ labelSheet = StdLabel(idx)
          /\ idx <= 25 => labelSheet = <<65 + idx>>
          /\ idx = 26 => labelSheet = <<65, 65>>
          /\ idx = 51 => labelSheet = <<65, 90>>
          /\ idx = 52 => labelSheet = <<66, 65>>
          /\ idx = 701 => labelSheet = <<90, 90>>
    /\ (labelExcel # None /\ idx < RangeCols) =>
          /\ labelExcel = StdLabel(idx)
          /\ labelSheet # None => labelExcel = labelSheet

C6_Witness ==
    /\ idx = 701
    /\ labelSheet = <<90, 90>>
    /\ labelExcel = <<90, 90>>

\* C7: for every index analyze_excel can label, also beyond column ZZ, the
\* label is made of the letters A-Z only, is the standard label
\* ("AAA" for 702), and belongs to no other index
C7_StandardForEveryIndex ==
    labelExcel # None =>
        /\ \A i \in 1..Len(labelExcel) : labelExcel[i] \in 65..90
        /\ labelExcel = StdLabel(idx)
        /\ idx = 702 => labelExcel = <<65, 65, 65>>
        /\ \A j \in 0..MaxIdx : col_letter_excel(j) = labelExcel => j = idx

=============================================================================
